---- MODULE Spec2Model ----
(***************************************************************************)
(* wc-vision-service: the /analyze-plan and /analyze-bid-docs request      *)
(* handlers, the Poppler and pdf.js rasterizers, and the temp storage,     *)
(* document server, rasterizer processes and extraction backend they use.  *)
(*                                                                         *)
(* A JavaScript string is a sequence of tokens: a token stands for a run   *)
(* of characters ("a" for text holding no '.' and no '?').  A JavaScript   *)
(* value is a record [t, s]: its typeof and, for a string, its text.       *)
(* One action is one run of a handler between two awaits.                  *)
(***************************************************************************)
EXTENDS Integers, Sequences, FiniteSets, TLC

VARIABLES
    INTERNAL_API_KEY,   \* process.env.INTERNAL_API_KEY
    st,                 \* per request: position, request, locals, response
    tmp,                \* temp storage: directory id -> set of file names
    nextDir,            \* ids mkdtemp has handed out so far
    _pdfjsLib           \* the lazily loaded pdf.js module (pdf.js variant):
                        \* undefined, or the module marked with the request
                        \* whose import assigned it

vars == <<INTERNAL_API_KEY, st, tmp, nextDir, _pdfjsLib>>

-----------------------------------------------------------------------------
(* Bounds *)

MaxUrlLen == 3        \* tokens in a URL
MaxDocPages == 5      \* pages of a served document (plus the 10-page one)
MaxDirs == 2          \* temp directories mkdtemp may create in one run

(* Program constants *)

MAX_PDF_BYTES == 89128960          \* 85 * 1024 * 1024
PlotDpi == 750
PlanDpi == 450
PlotMaxPages == 4
PlanMaxPages == 3
PlotMaxPixels == 90000000
PlanMaxPixels == 45000000
PdfjsDpi == 350
PdfjsMaxPages == 3
PointsPerInch == 72

Reqs == {"r1", "r2"}

\* let _pdfjsLib; (no module yet)
NoModule == "undefined"

-----------------------------------------------------------------------------
(* JavaScript values *)

Undef == [t |-> "undefined", s |-> <<>>]
Str(s) == [t |-> "string", s |-> s]
Num == [t |-> "number", s |-> <<"42">>]      \* a truthy non-string value

Truthy(v) == v.t = "number" \/ (v.t = "string" /\ v.s # <<>>)
Or(a, b) == IF Truthy(a) THEN a ELSE b       \* a || b

UrlTokens == {"a", "?", ".pdf", ".PDF", ".png", ".jpg", ".jpeg", ".gif", ".webp"}
TypeTokens == {"pdf", "PDF", "png", "Png", "jpg", "jpeg", "gif", "webp", "doc"}

LowerTok(t) ==
    CASE t = ".PDF" -> ".pdf"
      [] t = "PDF" -> "pdf"
      [] t = "Png" -> "png"
      [] t = "Plot" -> "plot"
      [] t = "GRADING" -> "grading"
      [] OTHER -> t

toLowerCase(s) == [i \in 1..Len(s) |-> LowerTok(s[i])]

\* String(v) for the values of the model: a string is itself, undefined and
\* numbers become text that holds no extension.
String(v) == IF v.t = "string" THEN v.s ELSE <<"a">>

-----------------------------------------------------------------------------
(* Classification, part_002 lines 226-238 *)

ImgExts == {".png", ".jpg", ".jpeg", ".gif", ".webp"}
ImgTypes == {<<"png">>, <<"jpg">>, <<"jpeg">>, <<"gif">>, <<"webp">>}

\* /\.pdf(\?|$)/.test(lowerUrl)
hasPdfExt(lowerUrl) ==
    \E i \in 1..Len(lowerUrl) :
        /\ lowerUrl[i] = ".pdf"
        /\ (i = Len(lowerUrl) \/ lowerUrl[i + 1] = "?")

\* /\.(png|jpg|jpeg|gif|webp)(\?|$)/.test(lowerUrl)
hasImgExt(lowerUrl) ==
    \E i \in 1..Len(lowerUrl) :
        /\ lowerUrl[i] \in ImgExts
        /\ (i = Len(lowerUrl) \/ lowerUrl[i + 1] = "?")

isExplicitPdfType(lowerType) == lowerType = <<"pdf">>
isExplicitImgType(lowerType) == lowerType \in ImgTypes

\* let isPdf = isExplicitPdfType || hasPdfExt;
\* if (!isPdf && !hasImgExt && !isExplicitImgType) isPdf = true;
isPdfOf(lowerType, lowerUrl) ==
    LET first == isExplicitPdfType(lowerType) \/ hasPdfExt(lowerUrl)
    IN  IF ~first /\ ~hasImgExt(lowerUrl) /\ ~isExplicitImgType(lowerType)
        THEN TRUE
        ELSE first

\* server.js lines 143-147 (first variant): no default for an ambiguous URL
isPdfDirect(lowerType, lowerUrl) ==
    lowerType = <<"pdf">> \/ hasPdfExt(lowerUrl)

-----------------------------------------------------------------------------
(* Documents, pages and the pixel budget *)

Letter == [w |-> 612, h |-> 792]         \* 8.5 x 11 in, in points
Tabloid == [w |-> 792, h |-> 1224]       \* 11 x 17 in
ArchD == [w |-> 1728, h |-> 2592]        \* 24 x 36 in
PageSizes == {Letter, Tabloid, ArchD}
\* A MediaBox of 10000 x 10000 in, which pdfinfo still prints in digits
HugePage == [w |-> 720000, h |-> 720000]
NoSize == [w |-> 0, h |-> 0]

\* Page counts of the served documents: 0..MaxDocPages and a 10-page one.
DocPageCounts == (0..MaxDocPages) \cup {10}

\* A document: its page count, the size of page 1 and of the later pages.
\* An unreadable (corrupt) document has no pages any tool can find.
Docs ==
    {[numPages |-> 0, first |-> NoSize, rest |-> NoSize, readable |-> b] : b \in BOOLEAN}
    \cup {[numPages |-> 1, first |-> f, rest |-> f, readable |-> TRUE] : f \in PageSizes}
    \cup [numPages : DocPageCounts \ {0, 1}, first : PageSizes, rest : PageSizes,
          readable : {TRUE}]
    \cup {[numPages |-> 1, first |-> HugePage, rest |-> HugePage, readable |-> TRUE]}
NoDoc == [numPages |-> 0, first |-> NoSize, rest |-> NoSize, readable |-> FALSE]

\* What the document server holds: two URLs of one known document each (the
\* plans of the concurrent requests); any other URL may serve any document.
PlanAUrl == <<"a", "a", ".pdf">>
PlanBUrl == <<"a", "?", ".pdf">>
PlanA == [numPages |-> 2, first |-> Letter, rest |-> Letter, readable |-> TRUE]
PlanB == [numPages |-> 3, first |-> Tabloid, rest |-> Tabloid, readable |-> TRUE]
DocsAt(url) ==
    CASE url = PlanAUrl -> {PlanA}
      [] url = PlanBUrl -> {PlanB}
      [] OTHER -> Docs

PageSize(doc, p) == IF p = 1 THEN doc.first ELSE doc.rest

Min(a, b) == IF a <= b THEN a ELSE b
CeilDiv(a, b) == (a + b - 1) \div b

\* a * b for a, b >= 0.  A JavaScript number holds every product of the
\* model; here a product past MaxInt is MaxInt, which is above every ceiling.
MaxInt == 2147483647
Times(a, b) == IF a # 0 /\ b > MaxInt \div a THEN MaxInt ELSE a * b

\* const w = (parseFloat(m[1]) / 72) * dpi; h likewise; pixels = w * h
PixelsAt(size, dpi) ==
    Times((size.w * dpi) \div PointsPerInch, (size.h * dpi) \div PointsPerInch)

\* Math.floor(dpi * Math.sqrt(maxPixels / pixels)): the largest s with
\* s^2 * w * h <= maxPixels * 72^2 (w, h in points; both sides divided by 36^2)
\* ScaledDpi rounded up instead of down.
ScaledDpiCeil(size, dpi, maxPixels) ==
    LET n == (4 * maxPixels) \div ((size.w \div 36) * (size.h \div 36))
    IN  CHOOSE s \in 1..(dpi + 1) : (s - 1) * (s - 1) <= n /\ s * s > n

ScaledDpi(size, dpi, maxPixels) ==
    LET n == (4 * maxPixels) \div ((size.w \div 36) * (size.h \div 36))
    IN  CHOOSE s \in 0..dpi : s * s <= n /\ (s + 1) * (s + 1) > n

\* part_002 lines 163-178, given the page size pdfinfo printed
safeDpiOf(size, dpi, maxPixels) ==
    IF PixelsAt(size, dpi) > maxPixels
    THEN ScaledDpi(size, dpi, maxPixels)
    ELSE dpi

\* The pixel area of page p of doc as pdftoppm -r dpi renders it.
RenderedPixels(doc, p, dpi) ==
    Times(CeilDiv(PageSize(doc, p).w * dpi, PointsPerInch),
          CeilDiv(PageSize(doc, p).h * dpi, PointsPerInch))

\* A rendered page image: the data: URI of page `page` of `doc` at `dpi`.
Image(doc, page, dpi) == [doc |-> doc, page |-> page, dpi |-> dpi]
NoImage == [doc |-> NoDoc, page |-> 0, dpi |-> 0]

\* Files of a temp directory: the input and the page images pdftoppm wrote.
\* pdftoppm pads the page number to the digits of the document's page count.
Digits(n) == IF n < 10 THEN 1 ELSE 2
InputFile == [kind |-> "input", page |-> 0, width |-> 0, img |-> NoImage]
PageFile(doc, p, dpi) ==
    [kind |-> "page", page |-> p, width |-> Digits(doc.numPages),
     img |-> Image(doc, p, dpi)]

\* pdftoppm -f 1 -l maxPages: the files it writes
PdftoppmFiles(doc, dpi, maxPages) ==
    {PageFile(doc, p, dpi) : p \in 1..Min(doc.numPages, maxPages)}

\* FilesNamed with the page number in the file name off by one.
FilesNamedOffByOne(files, i) ==
    {f \in files : f.kind = "page" /\ f.page = i + 1 /\ f.width = Digits(i + 1)}

\* fs.readFile(`${outPrefix}-${i}.png`): the files of that name
FilesNamed(files, i) ==
    {f \in files : f.kind = "page" /\ f.page = i /\ f.width = Digits(i)}

-----------------------------------------------------------------------------
(* Requests *)

\* req.headers['x-internal-key']
HeaderKeys == {Undef, Str(<<"k1">>), Str(<<"bad">>)}
ConfiguredKeys == {Undef, Str(<<"k1">>)}

\* Sequences of at most n elements of S
SeqUpTo(S, n) == UNION {[1..k -> S] : k \in 0..n}

AllUrls == SeqUpTo(UrlTokens, MaxUrlLen) \ {<<>>}
AllFileTypes ==
    {Undef, Str(<<>>), Num} \cup {Str(<<t>>) : t \in TypeTokens}

\* extraContext.docType
DocTypes == {Undef, Str(<<"Plot">>), Str(<<"GRADING">>), Str(<<"foundation">>)}

NoPlanUrls == "undefined"
PlanUrlValues == {NoPlanUrls, "not an array", "[]", "[url]"}

Request(key, fileUrl, imageUrl, fileType, docType, planUrls) ==
    [key |-> key, fileUrl |-> fileUrl, imageUrl |-> imageUrl,
     fileType |-> fileType, docType |-> docType, planUrls |-> planUrls]
NoRequest == Request(Undef, Undef, Undef, Undef, Undef, NoPlanUrls)

\* The requests of the pipeline specification: every header, the URL in
\* either field or in neither, a few URLs and types, every docType.
FewUrls == {<<"a", ".pdf">>, <<"a", ".png">>, <<"a">>, <<".PDF", ".png">>}
FewFileTypes == {Undef, Str(<<"pdf">>), Str(<<"png">>), Num}
PlanRequests ==
    {Request(k, Undef, Undef, Undef, Undef, NoPlanUrls) : k \in HeaderKeys}
    \cup {Request(Str(<<"k1">>), Str(<<>>), Str(<<>>), Undef, Undef, NoPlanUrls)}
    \cup {Request(Str(<<"k1">>), Undef, Str(u), Undef, Undef, NoPlanUrls) : u \in FewUrls}
    \cup {Request(Str(<<"k1">>), Str(u), Undef, t, d, NoPlanUrls) :
            u \in FewUrls, t \in FewFileTypes, d \in DocTypes}
    \cup {Request(Str(<<"bad">>), Str(u), Undef, Undef, Undef, NoPlanUrls) : u \in FewUrls}

\* The requests of the classification specification: every URL and type.
ClassifyRequests ==
    {Request(Str(<<"k1">>), Str(u), Undef, t, Undef, NoPlanUrls) :
        u \in AllUrls, t \in AllFileTypes}

BidRequests ==
    {Request(k, Undef, Undef, Undef, Undef, p) : k \in HeaderKeys, p \in PlanUrlValues}

-----------------------------------------------------------------------------
(* Content blocks, backend responses, HTTP responses *)

\* buildPrompt(extraContext, estimateId): the instruction text
buildPrompt(docType) == [docType |-> docType]

Block(type, prompt, url, img) ==
    [type |-> type, prompt |-> prompt, url |-> url, img |-> img]
TextBlock(docType) == Block("input_text", buildPrompt(docType), <<>>, NoImage)
\* UrlBlock carrying the lower-cased URL.
UrlBlockLowered(type, url) == Block(type, buildPrompt(Undef), toLowerCase(url), NoImage)
UrlBlock(type, url) == Block(type, buildPrompt(Undef), url, NoImage)
ImageBlock(img) == Block("input_image", buildPrompt(Undef), <<>>, img)

\* The text a backend response may carry; NoText is a field that is no string.
NoText == "<undefined>"
JsonObjectText == "{\"quick_summary\":\"ok\"}"
Texts == {NoText, "", "  ", "{not json", "42", JsonObjectText}
NestedTexts == {NoText, "{not json", JsonObjectText}
BackendResponses == [output_text : Texts, nested : NestedTexts]

trim(t) == IF t = "  " THEN "" ELSE t

\* JSON.parse(text): the value, or NoJson when it throws
NoJson == "<SyntaxError>"
\* JSONparse recovering an object from a truncated text.
JSONparseLenient(t) ==
    CASE t = JsonObjectText -> "object{quick_summary:ok}"
      [] t = "42" -> "number 42"
      [] t = "{not json" -> "object{}"
      [] OTHER -> NoJson

JSONparse(t) ==
    CASE t = JsonObjectText -> "object{quick_summary:ok}"
      [] t = "42" -> "number 42"
      [] OTHER -> NoJson

NoField == "<absent>"
Response(status, error, details, source, data, raw) ==
    [status |-> status, error |-> error, details |-> details,
     success |-> (status = 200), source |-> source, data |-> data, raw |-> raw]
Unauthorized == Response(401, "Unauthorized", NoField, NoField, NoJson, NoField)
MissingUrl == Response(400, "Missing file/image URL", NoField, NoField, NoJson, NoField)
MissingPlanUrls == Response(400, "planUrls array is required", NoField, NoField, NoJson, NoField)
ServiceFailed(details) ==
    Response(500, "Vision service failed", details, NoField, NoJson, NoField)
Success(isPdf, parsed, jsonText) ==
    Response(200, NoField, NoField, IF isPdf THEN "pdf" ELSE "image", parsed, jsonText)

-----------------------------------------------------------------------------
(* State *)

\* A request that has not arrived.
Idle ==
    [pc |-> "idle", handler |-> "none", req |-> NoRequest,
     url |-> <<>>, isPdf |-> FALSE, content |-> <<>>,
     dpi |-> 0, maxPages |-> 0, maxPixels |-> 0, safeDpi |-> 0,
     res |-> [ok |-> FALSE, contentLen |-> 0, bodyLen |-> 0, doc |-> NoDoc],
     pageSize |-> NoSize, timer |-> FALSE, buf |-> 0, pdfjsLib |-> NoModule, doc |-> NoDoc, tmpDir |-> 0, images |-> <<>>, i |-> 0, thrown |-> NoField,
     backend |-> [output_text |-> NoText, nested |-> NoText],
     resp |-> <<>>,
     fetches |-> 0, execs |-> <<>>, calls |-> <<>>, dirsMade |-> {}]

Init ==
    /\ INTERNAL_API_KEY \in ConfiguredKeys
    /\ st = [r \in Reqs |-> Idle]
    /\ tmp = [d \in {} |-> {}]
    /\ nextDir = 0
    /\ _pdfjsLib = NoModule

Set(r, rec) == st' = [st EXCEPT ![r] = rec]

\* res.status(..).json(..): the handler returns
Respond(s, response) ==
    [s EXCEPT !.pc = "done", !.resp = Append(@, response)]

\* the handler's catch (err): 500 with err.message
Catch(s, message) == Respond(s, ServiceFailed(message))

\* downloadToTempFile's finally: clearTimeout(t)
clearTimeout(s) == [s EXCEPT !.timer = FALSE]

tmpGlobals == <<INTERNAL_API_KEY, nextDir, _pdfjsLib>>
globals == <<INTERNAL_API_KEY, tmp, nextDir, _pdfjsLib>>

-----------------------------------------------------------------------------
(* /analyze-plan: from the request to the first await *)

\* Unauthorised without the test for an unset key.
UnauthorisedKeyOnly(internalKey, key) == internalKey # key

\* if (!INTERNAL_API_KEY || internalKey !== INTERNAL_API_KEY)
Unauthorised(internalKey, key) == ~Truthy(key) \/ internalKey # key

\* UnauthorisedBid without the test for a missing header.
UnauthorisedBidKeyOnly(headerKey, key) == headerKey # key

\* if (!headerKey || headerKey !== INTERNAL_API_KEY)     (/analyze-bid-docs)
UnauthorisedBid(headerKey, key) == ~Truthy(headerKey) \/ headerKey # key

\* MissingUrlField when the URL is not validated.
MissingUrlFieldNever(url) == FALSE

\* if (!url)
MissingUrlField(url) == ~Truthy(url)

\* if (!Array.isArray(planUrls) || planUrls.length === 0)
MissingPlanUrlsField(planUrls) == planUrls # "[url]"

\* (fileType || '').toLowerCase() throws for a truthy value that is no string
LowerTypeThrows(fileType) == Truthy(fileType) /\ fileType.t # "string"

\* docLower.includes('plot') || docLower.includes('grading')
isPlot(docType) ==
    LET docLower == toLowerCase(Or(docType, Str(<<>>)).s)
    IN  \E i \in 1..Len(docLower) : docLower[i] \in {"plot", "grading"}

\* client.responses.create({... content ...}): the call is made, the handler waits
CallBackend(s) == [s EXCEPT !.pc = "extract", !.calls = Append(@, s.content)]

\* rasterizePdfToImagesPoppler(url, {dpi, maxPages, maxPixels}) up to its
\* first await: execFileAsync('pdftoppm', ['-h'])
StartPoppler(s) ==
    LET plot == isPlot(s.req.docType)
    IN  [s EXCEPT !.dpi = IF plot THEN PlotDpi ELSE PlanDpi,
                  !.maxPages = IF plot THEN PlotMaxPages ELSE PlanMaxPages,
                  !.maxPixels = IF plot THEN PlotMaxPixels ELSE PlanMaxPixels,
                  !.pc = "probe",
                  !.execs = Append(@, "pdftoppm -h")]

\* rasterizePdfToImages(url, 350, 3) up to its first await: getPdfjs() imports
\* pdf.js unless it is loaded, then fetch(pdfUrl)
StartPdfjs(s) ==
    IF _pdfjsLib # NoModule
    THEN [s EXCEPT !.dpi = PdfjsDpi, !.maxPages = PdfjsMaxPages,
                   !.pdfjsLib = _pdfjsLib,
                   !.pc = "pj_fetch", !.fetches = @ + 1]
    ELSE [s EXCEPT !.dpi = PdfjsDpi, !.maxPages = PdfjsMaxPages, !.pc = "pj_import"]

\* The handler of part_002 (h = "poppler"), of the pdf.js variant in
\* Dockerfile (h = "pdfjs") and of the first variant of server.js (h = "direct")
AnalyzePlan(r, q, h) ==
    /\ st[r].pc = "idle"
    /\ UNCHANGED globals
    /\ LET s0 == [st[r] EXCEPT !.handler = h, !.req = q]
           url == Or(q.fileUrl, q.imageUrl)
           lowerUrl == toLowerCase(String(url))
           lowerType == toLowerCase(Or(q.fileType, Str(<<>>)).s)
           isPdf == IF h = "direct"
                    THEN isPdfDirect(lowerType, lowerUrl)
                    ELSE isPdfOf(lowerType, lowerUrl)
           s1 == [s0 EXCEPT !.url = String(url), !.isPdf = isPdf,
                            !.content = <<TextBlock(q.docType)>>]
       IN  IF Unauthorised(q.key, INTERNAL_API_KEY)
           THEN Set(r, Respond(s0, Unauthorized))
           ELSE IF MissingUrlField(url)
           THEN Set(r, Respond(s0, MissingUrl))
           ELSE IF LowerTypeThrows(q.fileType)
           THEN Set(r, Catch(s0, "(fileType || '').toLowerCase is not a function"))
           ELSE IF ~isPdf
           THEN Set(r, CallBackend([s1 EXCEPT !.content =
                    Append(@, UrlBlock(IF h = "direct" THEN "input_image_url"
                                                       ELSE "input_image", s1.url))]))
           ELSE IF h = "direct"
           THEN Set(r, CallBackend([s1 EXCEPT !.content =
                    Append(@, UrlBlock("input_file", s1.url))]))
           ELSE IF h = "pdfjs"
           THEN Set(r, StartPdfjs(s1))
           ELSE Set(r, StartPoppler(s1))

\* /analyze-bid-docs (part_000): auth, planUrls, then chat.completions.create
AnalyzeBidDocs(r, q) ==
    /\ st[r].pc = "idle"
    /\ UNCHANGED globals
    /\ LET s0 == [st[r] EXCEPT !.handler = "biddocs", !.req = q]
       IN  IF UnauthorisedBid(q.key, INTERNAL_API_KEY)
           THEN Set(r, Respond(s0, Unauthorized))
           ELSE IF MissingPlanUrlsField(q.planUrls)
           THEN Set(r, Respond(s0, MissingPlanUrls))
           ELSE Set(r, [s0 EXCEPT !.pc = "chat",
                                  !.content = <<TextBlock(Undef), UrlBlock("image_url", <<"a">>)>>,
                                  !.calls = Append(@, <<TextBlock(Undef), UrlBlock("image_url", <<"a">>)>>)])

-----------------------------------------------------------------------------
(* rasterizePdfToImagesPoppler and downloadToTempFile (part_002) *)

\* Lengths a server may declare (0: no content-length header) and send.
SmallLen == 1000
DeclaredLens == {0, SmallLen, MAX_PDF_BYTES, MAX_PDF_BYTES + 1}
BodyLens == {SmallLen, MAX_PDF_BYTES, MAX_PDF_BYTES + 1}
ServerResponses == [ok : BOOLEAN, contentLen : DeclaredLens, bodyLen : BodyLens]

\* if (contentLen && Number(contentLen) > MAX_PDF_BYTES)
DeclaredTooLarge(contentLen) == contentLen # 0 /\ contentLen > MAX_PDF_BYTES

\* BufferTooLarge when the read length is never checked.
BufferTooLargeNever(len) == FALSE

\* if (buf.length > MAX_PDF_BYTES)
BufferTooLarge(len) == len > MAX_PDF_BYTES

\* await execFileAsync('pdftoppm', ['-h']) has ended; on success
\* downloadToTempFile arms its timer and calls fetch(url)
ProbeDone(r) ==
    /\ st[r].pc = "probe"
    /\ UNCHANGED globals
    /\ \E ok \in BOOLEAN :
        IF ok
        THEN Set(r, [st[r] EXCEPT !.pc = "fetch", !.timer = TRUE, !.fetches = @ + 1])
        ELSE Set(r, Catch(st[r], "spawn pdftoppm ENOENT"))

\* await fetch(url, {signal}) has ended: rejected (network error, or the
\* timer's abort), or a response whose status and content-length are checked
\* before res.arrayBuffer() is called
FetchDone(r) ==
    /\ st[r].pc = "fetch"
    /\ UNCHANGED globals
    /\ \/ Set(r, Catch(clearTimeout(st[r]), "fetch failed or aborted"))
       \/ \E res \in ServerResponses :
            LET s == [st[r] EXCEPT !.res = [ok |-> TRUE, contentLen |-> res.contentLen,
                                            bodyLen |-> res.bodyLen, doc |-> NoDoc]]
            IN  IF ~res.ok
                THEN Set(r, Catch(clearTimeout(st[r]), "Failed to download file: HTTP 404"))
                ELSE IF DeclaredTooLarge(res.contentLen)
                THEN Set(r, Catch(clearTimeout(s), "PDF too large (declared)."))
                ELSE Set(r, [s EXCEPT !.pc = "body"])

\* await res.arrayBuffer() has ended: rejected, or the whole body is in buf
\* (st[r].buf is its length, kept until downloadToTempFile is left);
\* its length is checked before fs.mkdtemp is called
BodyDone(r) ==
    /\ st[r].pc = "body"
    /\ UNCHANGED globals
    /\ \/ Set(r, Catch(clearTimeout(st[r]), "body read failed or aborted"))
       \/ \E doc \in DocsAt(st[r].url) :
            LET s == [st[r] EXCEPT !.buf = st[r].res.bodyLen]
            IN  IF BufferTooLarge(s.buf)
                THEN Set(r, Catch(clearTimeout(s), "PDF too large (read)."))
                ELSE Set(r, [s EXCEPT !.pc = "mkdtemp", !.doc = doc])

\* await fs.mkdtemp(..) has ended: a new, empty directory of a fresh name,
\* or an error; then fs.writeFile(filePath, buf) is called
MkdtempDone(r) ==
    /\ st[r].pc = "mkdtemp"
    /\ UNCHANGED <<INTERNAL_API_KEY, _pdfjsLib>>
    /\ \/ /\ Set(r, Catch(clearTimeout(st[r]), "mkdtemp failed"))
          /\ UNCHANGED <<tmp, nextDir>>
       \/ /\ nextDir < MaxDirs
          /\ nextDir' = nextDir + 1
          /\ tmp' = [d \in DOMAIN tmp \cup {nextDir + 1} |->
                        IF d = nextDir + 1 THEN {} ELSE tmp[d]]
          /\ Set(r, [st[r] EXCEPT !.pc = "write", !.tmpDir = nextDir + 1,
                                  !.dirsMade = @ \cup {nextDir + 1}])

\* What downloadToTempFile does when fs.writeFile rejects: the error leaves
\* the function (its finally only clears the timer) and, thrown before the
\* try of rasterizePdfToImagesPoppler, reaches the handler's catch.
WriteFailed(s) == Catch(s, "writeFile failed")

\* await fs.writeFile(filePath, buf) has ended.  On success downloadToTempFile
\* returns {tmpDir, filePath}; the rasterizer enters its try, sets
\* safeDpi = dpi and runs pdfinfo.
WriteDone(r) ==
    /\ st[r].pc = "write"
    /\ UNCHANGED tmpGlobals
    /\ \/ /\ Set(r, WriteFailed(clearTimeout(st[r])))
          /\ UNCHANGED tmp
       \/ /\ tmp' = [tmp EXCEPT ![st[r].tmpDir] = @ \cup {InputFile}]
          /\ Set(r, [st[r] EXCEPT !.pc = "pdfinfo", !.timer = FALSE,
                                  !.safeDpi = st[r].dpi,
                                  !.res = Idle.res, !.buf = 0,
                                  !.execs = Append(@, "pdfinfo")])

\* await execFileAsync('pdfinfo', ..) has ended: rejected (caught and
\* ignored), or stdout with or without a "Page size:" line (that of page 1);
\* then pdftoppm is run with -r safeDpi -f 1 -l maxPages
PdfinfoDone(r) ==
    /\ st[r].pc = "pdfinfo"
    /\ UNCHANGED globals
    /\ \E out \in {"rejected", "no match"} \cup
                  (IF st[r].doc.readable /\ st[r].doc.numPages >= 1
                   THEN {"match"} ELSE {}) :
         Set(r, [st[r] EXCEPT
                    !.pc = "pdftoppm",
                    !.pageSize = IF out = "match" THEN st[r].doc.first ELSE NoSize,
                    !.safeDpi = IF out = "match"
                                THEN safeDpiOf(st[r].doc.first, st[r].dpi, st[r].maxPixels)
                                ELSE st[r].dpi,
                    !.execs = Append(@, "pdftoppm")])

\* NoImages when the emptiness of the list is never detected.
NoImagesNever(images) == FALSE

\* if (!images.length) throw new Error('Rasterization produced no images.')
NoImages(images) == Len(images) = 0

\* The for loop has ended (by its bound or by break): throw or return, and in
\* both cases the finally calls fs.rm(tmpDir)
AfterLoop(s) ==
    [s EXCEPT !.pc = "rm",
              !.thrown = IF NoImages(s.images)
                         THEN "Rasterization produced no images."
                         ELSE NoField]

\* await execFileAsync('pdftoppm', args) has ended: rejected (the finally
\* runs), or the page files are written and the loop reads the first one
PdftoppmDone(r) ==
    /\ st[r].pc = "pdftoppm"
    /\ UNCHANGED tmpGlobals
    /\ \/ /\ Set(r, [st[r] EXCEPT !.pc = "rm", !.thrown = "Command failed: pdftoppm"])
          /\ UNCHANGED tmp
       \/ /\ st[r].doc.readable
          /\ tmp' = [tmp EXCEPT ![st[r].tmpDir] =
                        @ \cup PdftoppmFiles(st[r].doc, st[r].safeDpi, st[r].maxPages)]
          /\ Set(r, [st[r] EXCEPT !.pc = "read", !.images = <<>>, !.i = 1])

\* for (let i = 1; i <= maxPages; i++): does the loop go on after page i?
LoopGoesOn(i, maxPages) == i + 1 <= maxPages

\* await fs.readFile(`${outPrefix}-${i}.png`) has ended: the image is pushed
\* and the loop goes on, or the read failed and the loop breaks
ReadDone(r) ==
    /\ st[r].pc = "read"
    /\ UNCHANGED globals
    /\ LET s == st[r]
           found == FilesNamed(tmp[s.tmpDir], s.i)
       IN  IF found = {}
           THEN Set(r, AfterLoop(s))
           ELSE LET img == (CHOOSE f \in found : TRUE).img
                    s1 == [s EXCEPT !.images = Append(@, img), !.i = @ + 1]
                IN  IF LoopGoesOn(s.i, s.maxPages)
                    THEN Set(r, s1)
                    ELSE Set(r, AfterLoop(s1))

\* PushImages with the pages pushed last to first.
PushImagesReversed(content, images) ==
    content \o [k \in 1..Len(images) |-> ImageBlock(images[Len(images) + 1 - k])]

\* pageImages.forEach((img) => content.push({type: 'input_image', image_url: img}))
PushImages(content, images) ==
    content \o [k \in 1..Len(images) |-> ImageBlock(images[k])]

\* await fs.rm(tmpDir, {recursive: true, force: true}) has ended: the pending
\* error goes to the handler's catch, or the images are returned, pushed onto
\* the content and the backend is called
RmDone(r) ==
    /\ st[r].pc = "rm"
    /\ UNCHANGED tmpGlobals
    /\ tmp' = [d \in DOMAIN tmp \ {st[r].tmpDir} |-> tmp[d]]
    /\ IF st[r].thrown # NoField
       THEN Set(r, Catch(st[r], st[r].thrown))
       ELSE Set(r, CallBackend([st[r] EXCEPT
                        !.content = PushImages(@, st[r].images)]))

-----------------------------------------------------------------------------
(* rasterizePdfToImages, the pdf.js variant (Dockerfile lines 382-428) *)

\* await import('pdfjs-dist/legacy/build/pdf.mjs') has ended; the module is
\* kept in _pdfjsLib and fetch(pdfUrl) is called
PjImportDone(r) ==
    /\ st[r].pc = "pj_import"
    /\ UNCHANGED <<INTERNAL_API_KEY, tmp, nextDir>>
    /\ \/ /\ Set(r, Catch(st[r], "Cannot find package 'pdfjs-dist'"))
          /\ UNCHANGED _pdfjsLib
       \/ /\ _pdfjsLib' = r
          /\ Set(r, [st[r] EXCEPT !.pc = "pj_fetch", !.pdfjsLib = r,
                                  !.fetches = @ + 1])

\* await fetch(pdfUrl) has ended; if (!res.ok) throw; res.arrayBuffer()
PjFetchDone(r) ==
    /\ st[r].pc = "pj_fetch"
    /\ UNCHANGED globals
    /\ \/ Set(r, Catch(st[r], "fetch failed"))
       \/ \E ok \in BOOLEAN :
            IF ~ok
            THEN Set(r, Catch(st[r], "Failed to download PDF: 404"))
            ELSE Set(r, [st[r] EXCEPT !.pc = "pj_body"])

\* await res.arrayBuffer() has ended; pdfjsLib.getDocument({data}) is called
PjBodyDone(r) ==
    /\ st[r].pc = "pj_body"
    /\ UNCHANGED globals
    /\ \/ Set(r, Catch(st[r], "body read failed"))
       \/ \E doc \in DocsAt(st[r].url) :
            Set(r, [st[r] EXCEPT !.pc = "pj_load", !.doc = doc])

\* const pagesToRender = Math.min(pdf.numPages, MAX_PAGES)
pagesToRender(numPages) == Min(numPages, PdfjsMaxPages)

\* for (pageNum = 1; pageNum <= pagesToRender; pageNum++): the loop test; when
\* it fails rasterizePdfToImages returns images, the handler pushes them onto
\* the content and calls the backend
PjLoop(s) ==
    IF s.i <= pagesToRender(s.doc.numPages)
    THEN [s EXCEPT !.pc = "pj_getPage"]
    ELSE CallBackend([s EXCEPT !.content = PushImages(@, s.images)])

\* await getDocument(..).promise has ended: rejected for a document pdf.js
\* cannot read, else the loop starts at page 1
PjLoadDone(r) ==
    /\ st[r].pc = "pj_load"
    /\ UNCHANGED globals
    /\ \/ Set(r, Catch(st[r], "Invalid PDF structure."))
       \/ /\ st[r].doc.readable
          /\ Set(r, PjLoop([st[r] EXCEPT !.images = <<>>, !.i = 1]))

\* await pdf.getPage(pageNum) has ended; the canvas is made, page.render called
PjGetPageDone(r) ==
    /\ st[r].pc = "pj_getPage"
    /\ UNCHANGED globals
    /\ \/ Set(r, Catch(st[r], "getPage failed"))
       \/ Set(r, [st[r] EXCEPT !.pc = "pj_render"])

\* await page.render(..).promise has ended; the PNG is pushed, pageNum++
PjRenderDone(r) ==
    /\ st[r].pc = "pj_render"
    /\ UNCHANGED globals
    /\ \/ Set(r, Catch(st[r], "render failed"))
       \/ Set(r, PjLoop([st[r] EXCEPT
                    !.images = Append(@, Image(st[r].doc, st[r].i, st[r].dpi)),
                    !.i = @ + 1]))

-----------------------------------------------------------------------------
(* The extraction call's result and the response *)

\* part_002 lines 432-434: output_text when it is a non-blank string, else ''
jsonTextPoppler(b) ==
    IF b.output_text # NoText /\ trim(b.output_text) # "" THEN b.output_text ELSE ""

\* Dockerfile lines 859-871: as above, else response.output[0].content[0].text
jsonTextPdfjs(b) ==
    IF b.output_text # NoText /\ trim(b.output_text) # "" THEN b.output_text
    ELSE IF b.nested # NoText THEN b.nested
    ELSE ""

\* server.js line 185: response.output_text as it is
jsonTextDirect(b) == b.output_text

jsonTextOf(h, b) ==
    CASE h = "poppler" -> jsonTextPoppler(b)
      [] h = "pdfjs" -> jsonTextPdfjs(b)
      [] OTHER -> jsonTextDirect(b)

\* From the backend's response to the handler's response
Normalize(s, b) ==
    LET jsonText == jsonTextOf(s.handler, b)
        parsed == JSONparse(jsonText)
    IN  IF s.handler # "direct" /\ jsonText = ""
        THEN Respond(s, ServiceFailed(
                IF s.handler = "poppler" THEN "Model did not return output_text."
                ELSE "Model did not return JSON text in output."))
        ELSE IF parsed = NoJson
        THEN Respond(s, ServiceFailed(
                IF s.handler = "direct" THEN "Could not parse JSON from model output."
                ELSE "Could not parse JSON output."))
        ELSE Respond(s, Success(s.isPdf, parsed,
                IF s.handler = "direct" THEN NoField ELSE jsonText))

\* BackendFailed when a failed call is made again.
BackendFailedRetry(s) == CallBackend(s)

\* What the handler does when client.responses.create rejects
BackendFailed(s) == Catch(s, "backend error")

\* await client.responses.create(..) has ended
ExtractDone(r) ==
    /\ st[r].pc = "extract"
    /\ UNCHANGED globals
    /\ \/ Set(r, BackendFailed(st[r]))
       \/ \E b \in BackendResponses :
            Set(r, Normalize([st[r] EXCEPT !.backend = b], b))

\* await client.chat.completions.create(..) has ended (/analyze-bid-docs):
\* res.json({ok: true, projectId, raw_model_output: content})
ChatDone(r) ==
    /\ st[r].pc = "chat"
    /\ UNCHANGED globals
    /\ \/ Set(r, Catch(st[r], "backend error"))
       \/ \E t \in {NoText, JsonObjectText} :
            Set(r, Respond(st[r],
                Response(200, NoField, NoField, NoField, NoJson,
                         IF t = NoText THEN "{}" ELSE t)))

-----------------------------------------------------------------------------
(* Specifications *)

\* The request handled in the sequential specifications.
One == "r1"

ReceivePlan(r) ==
    /\ st[r].pc = "idle"
    /\ \E q \in PlanRequests : AnalyzePlan(r, q, "poppler")
ReceivePlanPdfjs(r) ==
    /\ st[r].pc = "idle"
    /\ \E q \in PlanRequests : AnalyzePlan(r, q, "pdfjs")
ReceivePlanDirect(r) ==
    /\ st[r].pc = "idle"
    /\ \E q \in PlanRequests : AnalyzePlan(r, q, "direct")
ReceiveBidDocs(r) ==
    /\ st[r].pc = "idle"
    /\ \E q \in BidRequests : AnalyzeBidDocs(r, q)

Next ==
    \/ ReceivePlan(One)
    \/ ReceivePlanPdfjs(One)
    \/ ReceivePlanDirect(One)
    \/ ReceiveBidDocs(One)
    \/ ProbeDone(One)
    \/ FetchDone(One)
    \/ BodyDone(One)
    \/ MkdtempDone(One)
    \/ WriteDone(One)
    \/ PdfinfoDone(One)
    \/ PdftoppmDone(One)
    \/ ReadDone(One)
    \/ RmDone(One)
    \/ PjImportDone(One)
    \/ PjFetchDone(One)
    \/ PjBodyDone(One)
    \/ PjLoadDone(One)
    \/ PjGetPageDone(One)
    \/ PjRenderDone(One)
    \/ ExtractDone(One)
    \/ ChatDone(One)

Spec == Init /\ [][Next]_vars

\* Classification alone: every URL and declared type, each handler's rule.
ClassifyPlan(r) ==
    /\ st[r].pc = "idle"
    /\ \E q \in ClassifyRequests : AnalyzePlan(r, q, "poppler")
ClassifyPlanDirect(r) ==
    /\ st[r].pc = "idle"
    /\ \E q \in ClassifyRequests : AnalyzePlan(r, q, "direct")

NextClassify ==
    \/ ClassifyPlan(One)
    \/ ClassifyPlanDirect(One)

SpecClassify == Init /\ [][NextClassify]_vars

-----------------------------------------------------------------------------
(* Properties *)

\* The request has passed auth, validation and classification.
Classified(r) == Len(st[r].content) >= 1

\* The request goes through a rasterizer (it is a PDF for a handler that has one).
Rasterizes(r) == Classified(r) /\ st[r].isPdf /\ st[r].handler \in {"poppler", "pdfjs"}

\* The rasterizer has ended, by a return or by an error.
RasterizerEnded(r) == Rasterizes(r) /\ st[r].pc \in {"extract", "done"}

\* The rasterizer has returned its list: the handler went on to call the backend.
Returned(r) == Rasterizes(r) /\ Len(st[r].calls) >= 1

lowerUrlOf(r) == toLowerCase(st[r].url)
lowerTypeOf(r) == toLowerCase(Or(st[r].req.fileType, Str(<<>>)).s)

\* No document fetch, no temp directory, no child process, no backend call.
NoWork(r) ==
    /\ st[r].fetches = 0
    /\ st[r].dirsMade = {}
    /\ st[r].execs = <<>>
    /\ st[r].calls = <<>>

\* C1: once rasterizePdfToImagesPoppler has ended, in whatever way, no temp
\* directory created for the request exists any more.
C1_TempDirGone ==
    \A r \in Reqs :
        (st[r].handler = "poppler" /\ RasterizerEnded(r))
            => \A d \in st[r].dirsMade : d \notin DOMAIN tmp

\* C2: the list a rasterizer returns has at most maxPages entries, and entry k
\* is the rendering of page k of the request's document.
C2_PagesInOrder ==
    \A r \in Reqs :
        Returned(r) =>
            /\ Len(st[r].images) <= st[r].maxPages
            /\ \A k \in 1..Len(st[r].images) :
                /\ st[r].images[k].doc = st[r].doc
                /\ st[r].images[k].page = k

\* C2 witness: a document with more pages than maxPages came back as exactly
\* maxPages images.
C2_Witness ==
    \E r \in Reqs :
        /\ Returned(r)
        /\ st[r].handler = "poppler"
        /\ st[r].doc.numPages > st[r].maxPages
        /\ Len(st[r].images) = st[r].maxPages

\* C3: a rasterizer never returns an empty list: when the backend is called
\* for a PDF, at least one page image was produced.
C3_NeverEmpty ==
    \A r \in Reqs : Returned(r) => Len(st[r].images) >= 1

\* C4: every page image the Poppler rasterizer returns has a pixel area of at
\* most maxPixels.
C4_PixelCeiling ==
    \A r \in Reqs :
        (Returned(r) /\ st[r].handler = "poppler") =>
            \A k \in 1..Len(st[r].images) :
                RenderedPixels(st[r].images[k].doc, st[r].images[k].page,
                               st[r].images[k].dpi) <= st[r].maxPixels

\* C5: a declared type of png/jpg/jpeg/gif/webp classifies as Image, whatever
\* the URL is.
C5_ImageTypeWins ==
    \A r \in Reqs :
        (Classified(r) /\ st[r].handler = "poppler"
            /\ isExplicitImgType(lowerTypeOf(r)))
            => ~st[r].isPdf

\* C6: a URL whose text ends in an image extension, with a declared type
\* other than 'pdf', classifies as Image.
C6_ImageExtWins ==
    \A r \in Reqs :
        (Classified(r) /\ st[r].handler = "poppler"
            /\ lowerUrlOf(r)[Len(lowerUrlOf(r))] \in ImgExts
            /\ ~isExplicitPdfType(lowerTypeOf(r)))
            => ~st[r].isPdf

\* C7: a URL with no recognized image or pdf extension and no declared type
\* classifies as PaginatedDocument, in part_002 and in the first variant of
\* server.js.
C7_DefaultIsPdf ==
    \A r \in Reqs :
        (Classified(r) /\ st[r].handler \in {"poppler", "direct"}
            /\ st[r].req.fileType = Undef
            /\ ~hasPdfExt(lowerUrlOf(r)) /\ ~hasImgExt(lowerUrlOf(r)))
            => st[r].isPdf

\* The content blocks are assembled: the instruction and at least one more.
Assembled(r) == Len(st[r].content) >= 2

BadKey(r) == st[r].req.key = Undef \/ st[r].req.key # INTERNAL_API_KEY

\* C9: a request whose x-internal-key is missing or differs from the
\* configured key is answered 401 and causes no work.
C9_UnauthorizedNoWork ==
    \A r \in Reqs :
        (st[r].pc # "idle" /\ BadKey(r)) =>
            /\ st[r].pc = "done"
            /\ st[r].resp = <<Unauthorized>>
            /\ NoWork(r)

\* C9 witness: a request that carries a URL and a wrong key was answered.
C9_Witness ==
    \E r \in Reqs :
        /\ st[r].pc = "done"
        /\ st[r].handler = "poppler"
        /\ st[r].req.key = Str(<<"bad">>)
        /\ Truthy(st[r].req.fileUrl)
        /\ INTERNAL_API_KEY = Str(<<"k1">>)

\* The request carries no URL (for /analyze-bid-docs: no non-empty planUrls).
NoUrl(r) ==
    IF st[r].handler = "biddocs"
    THEN st[r].req.planUrls \in {NoPlanUrls, "not an array", "[]"}
    ELSE ~Truthy(st[r].req.fileUrl) /\ ~Truthy(st[r].req.imageUrl)

\* C10: an authorized request that carries no URL is answered 400 and causes
\* no work.
C10_MissingUrlNoWork ==
    \A r \in Reqs :
        (st[r].pc # "idle" /\ ~BadKey(r) /\ NoUrl(r)) =>
            /\ st[r].pc = "done"
            /\ Len(st[r].resp) = 1
            /\ st[r].resp[1].status = 400
            /\ NoWork(r)

\* C10 witness: an authorized request with neither fileUrl nor imageUrl was
\* answered.
C10_Witness ==
    \E r \in Reqs :
        /\ st[r].pc = "done"
        /\ st[r].handler = "poppler"
        /\ ~BadKey(r)
        /\ st[r].req.fileUrl = Undef
        /\ st[r].req.imageUrl = Undef

\* The backend's answer has come and the handler has responded to it.
Answered(r) == st[r].pc = "done" /\ Len(st[r].calls) = 1 /\ Len(st[r].resp) = 1

\* output_text is absent or blank
BlankOutputText(b) == b.output_text = NoText \/ trim(b.output_text) = ""

\* C11: when output_text is absent or blank and the nested output content
\* holds the JSON text, the request succeeds with the structure that text
\* parses to, in part_002 and in the pdf.js variant.
C11_NestedFallback ==
    \A r \in Reqs :
        (Answered(r) /\ st[r].handler \in {"poppler", "pdfjs"}
            /\ st[r].resp[1].details # "backend error"
            /\ BlankOutputText(st[r].backend)
            /\ st[r].backend.nested = JsonObjectText)
            => /\ st[r].resp[1].status = 200
               /\ st[r].resp[1].data = JSONparse(JsonObjectText)

\* The texts of the model that are JSON by the grammar: a number, an object.
IsJson(t) == t \in {"42", JsonObjectText}

\* The text the handler takes from the backend's answer is there and is no JSON.
UnparseableText(r) ==
    LET t == jsonTextOf(st[r].handler, st[r].backend)
    IN  t \notin {NoText, "", "  "} /\ ~IsJson(t)

\* The backend answered (the call did not reject) and the handler responded.
AnsweredByBackend(r) == Answered(r) /\ st[r].resp[1].details # "backend error"

NoData(resp) == resp.data = NoJson /\ resp.raw = NoField /\ resp.source = NoField

\* C12 as stated: a text that is no JSON gives the 500 response
\* 'Could not parse JSON output.' with no data, in part_002 and in the first
\* variant of server.js.
C12_ParseFailureMessage ==
    \A r \in Reqs :
        (AnsweredByBackend(r) /\ st[r].handler \in {"poppler", "direct"}
            /\ UnparseableText(r))
            => st[r].resp[1] = ServiceFailed("Could not parse JSON output.")

\* C12, amended: a text that is no JSON gives a 500 response with no data,
\* whose details are 'Could not parse JSON output.' in part_002 and
\* 'Could not parse JSON from model output.' in the first variant of server.js.
C12_ParseFailure ==
    \A r \in Reqs :
        (AnsweredByBackend(r) /\ st[r].handler \in {"poppler", "direct"}
            /\ UnparseableText(r))
            => /\ st[r].resp[1].status = 500
               /\ st[r].resp[1].error = "Vision service failed"
               /\ st[r].resp[1].details =
                    (IF st[r].handler = "direct"
                     THEN "Could not parse JSON from model output."
                     ELSE "Could not parse JSON output.")
               /\ NoData(st[r].resp[1])

\* The first variant of server.js has answered a text that is no JSON.
C12_Witness ==
    \E r \in Reqs :
        /\ AnsweredByBackend(r) /\ UnparseableText(r)
        /\ st[r].handler = "direct"
        /\ st[r].backend.output_text = "{not json"
        /\ st[r].resp[1].details = "Could not parse JSON from model output."

\* A parsed value of the shape the schema asks for: an object.
SchemaShaped(v) == v = "object{quick_summary:ok}"

\* C13: a text that parses to something that is not of the schema's shape
\* (a bare number) is never returned as a success.
C13_SchemaChecked ==
    \A r \in Reqs :
        (Answered(r) /\ st[r].handler = "poppler" /\ st[r].resp[1].status = 200)
            => SchemaShaped(st[r].resp[1].data)

\* C14: when the poppler rasterizer returned N page images, 1 <= N <= maxPages,
\* the content sent to the backend is the instruction block followed by the
\* N image blocks of pages 1..N of the request's document, in that order.
C14_InstructionThenPages ==
    \A r \in Reqs :
        (Returned(r) /\ st[r].handler = "poppler")
            => LET c == st[r].calls[1]
                   N == Len(st[r].images)
               IN  /\ 1 <= N /\ N <= st[r].maxPages
                   /\ Len(c) = N + 1
                   /\ c[1] = TextBlock(st[r].req.docType)
                   /\ \A k \in 1..N :
                        /\ c[k + 1] = ImageBlock(st[r].images[k])
                        /\ c[k + 1].img.page = k
                        /\ c[k + 1].img.doc = st[r].doc

\* A PDF of several pages was rasterized and its content sent.
C14_Witness ==
    \E r \in Reqs :
        /\ Returned(r) /\ st[r].handler = "poppler"
        /\ Len(st[r].images) >= 2
        /\ Len(st[r].calls[1]) = Len(st[r].images) + 1

\* C15: a request part_002 classifies as an image sends exactly two blocks,
\* the instruction and one image block holding the caller's URL as it was
\* given, and fetches nothing, makes no temp directory and runs no process.
C15_ImagePassThrough ==
    \A r \in Reqs :
        (Classified(r) /\ st[r].handler = "poppler" /\ ~st[r].isPdf)
            => /\ st[r].calls = <<st[r].content>>
               /\ Len(st[r].content) = 2
               /\ st[r].content[1] = TextBlock(st[r].req.docType)
               /\ st[r].content[2].type = "input_image"
               /\ st[r].content[2].url = Or(st[r].req.fileUrl, st[r].req.imageUrl).s
               /\ st[r].content[2].img = NoImage
               /\ st[r].fetches = 0
               /\ st[r].dirsMade = {}
               /\ st[r].execs = <<>>
               /\ st[r].tmpDir = 0

\* An image request whose URL has upper-case letters has been answered.
C15_Witness ==
    \E r \in Reqs :
        /\ Answered(r) /\ st[r].handler = "poppler" /\ ~st[r].isPdf
        /\ st[r].url = <<".PDF", ".png">>
        /\ st[r].content[2].url = <<".PDF", ".png">>

\* C16: while part_002 waits for the document server (the fetch and the read
\* of the body) or for the extraction backend, a timer is armed that ends
\* the wait, so that the request is answered even if the other side never is.
C16_WaitsBounded ==
    \A r \in Reqs :
        (st[r].handler = "poppler" /\ st[r].pc \in {"fetch", "body", "extract"})
            => st[r].timer

\* The server's response declares, or its body has, more than MAX_PDF_BYTES.
SourceTooLarge(r) ==
    /\ st[r].res.ok
    /\ \/ st[r].res.contentLen > MAX_PDF_BYTES
       \/ st[r].res.bodyLen > MAX_PDF_BYTES

\* C17: a source whose declared content-length or read length exceeds
\* MAX_PDF_BYTES makes the request fail: no temp directory is made for it,
\* neither pdfinfo nor pdftoppm is run on it, and the backend is not called.
C17_TooLargeStopsEarly ==
    \A r \in Reqs :
        (st[r].handler = "poppler" /\ SourceTooLarge(r))
            => /\ st[r].pc \in {"body", "done"}
               /\ st[r].res.contentLen > MAX_PDF_BYTES => st[r].pc = "done"
               /\ st[r].dirsMade = {} /\ st[r].tmpDir = 0
               /\ st[r].execs = <<"pdftoppm -h">>
               /\ st[r].calls = <<>>
               /\ st[r].pc = "done" =>
                    /\ Len(st[r].resp) = 1
                    /\ st[r].resp[1].status = 500
                    /\ st[r].resp[1].details \in
                        {"PDF too large (declared).", "PDF too large (read).",
                         "body read failed or aborted"}

\* A body longer than MAX_PDF_BYTES, not declared so, was read and refused.
C17_Witness ==
    \E r \in Reqs :
        /\ st[r].handler = "poppler" /\ st[r].pc = "done"
        /\ st[r].res.ok
        /\ st[r].res.contentLen <= MAX_PDF_BYTES
        /\ st[r].res.bodyLen > MAX_PDF_BYTES
        /\ st[r].resp[1].details = "PDF too large (read)."

-----------------------------------------------------------------------------
(* Two PDF requests handled concurrently: their steps interleave at awaits *)

ConcUrl(r) == IF r = "r1" THEN PlanAUrl ELSE PlanBUrl
ConcRequest(r) ==
    Request(Str(<<"k1">>), Str(ConcUrl(r)), Undef, Undef, Undef, NoPlanUrls)

ReceiveConc(r) ==
    /\ st[r].pc = "idle"
    /\ AnalyzePlan(r, ConcRequest(r), "poppler")
ReceiveConcPdfjs(r) ==
    /\ st[r].pc = "idle"
    /\ AnalyzePlan(r, ConcRequest(r), "pdfjs")

NextConc ==
    \/ \E r \in Reqs : ReceiveConc(r)
    \/ \E r \in Reqs : ReceiveConcPdfjs(r)
    \/ \E r \in Reqs : ProbeDone(r)
    \/ \E r \in Reqs : FetchDone(r)
    \/ \E r \in Reqs : BodyDone(r)
    \/ \E r \in Reqs : MkdtempDone(r)
    \/ \E r \in Reqs : WriteDone(r)
    \/ \E r \in Reqs : PdfinfoDone(r)
    \/ \E r \in Reqs : PdftoppmDone(r)
    \/ \E r \in Reqs : ReadDone(r)
    \/ \E r \in Reqs : RmDone(r)
    \/ \E r \in Reqs : PjImportDone(r)
    \/ \E r \in Reqs : PjFetchDone(r)
    \/ \E r \in Reqs : PjBodyDone(r)
    \/ \E r \in Reqs : PjLoadDone(r)
    \/ \E r \in Reqs : PjGetPageDone(r)
    \/ \E r \in Reqs : PjRenderDone(r)
    \/ \E r \in Reqs : ExtractDone(r)

SpecConc == Init /\ [][NextConc]_vars

\* Every page image the request holds or has sent is of its own document.
OwnImages(r) ==
    /\ \A k \in 1..Len(st[r].images) : st[r].images[k].doc \in DocsAt(st[r].url)
    /\ \A n \in 1..Len(st[r].calls) : \A k \in 1..Len(st[r].calls[n]) :
            st[r].calls[n][k].img # NoImage
                => st[r].calls[n][k].img.doc \in DocsAt(st[r].url)

\* From the write of its input to its own cleanup, the request's directory
\* is there, is its alone, and holds its input and only its own pages.
OwnTempFiles(r) ==
    st[r].pc \in {"pdfinfo", "pdftoppm", "read", "rm"}
        => /\ st[r].tmpDir \in DOMAIN tmp
           /\ InputFile \in tmp[st[r].tmpDir]
           /\ \A f \in tmp[st[r].tmpDir] :
                f.kind = "page" => f.img.doc \in DocsAt(st[r].url)
           /\ \A o \in Reqs \ {r} : st[r].tmpDir \notin st[o].dirsMade

\* The module object the request uses was not assigned to a shared variable
\* while another request was handled.
NothingShared(r) == st[r].pdfjsLib \in {NoModule, r}

\* C18: of two /analyze-plan PDF requests handled concurrently, each one's
\* images come from its own document, neither's cleanup touches the other's
\* temp files, and neither reads a variable written while the other was
\* handled.
C18_Isolated ==
    \A r \in Reqs : OwnImages(r) /\ OwnTempFiles(r) /\ NothingShared(r)

-----------------------------------------------------------------------------

\* The request passed the key and URL checks and ended without a success.
Failed(r) ==
    /\ st[r].pc = "done"
    /\ st[r].resp[Len(st[r].resp)] \notin {Unauthorized, MissingUrl, MissingPlanUrls}
    /\ st[r].resp[Len(st[r].resp)].status # 200

\* C19: a failure in any stage of a part_002 request gives one 500 response,
\* and leaves what later requests share as it was before the request: of
\* the temp directories the request made none is left.
C19_FailureLeavesNoTrace ==
    \A r \in Reqs :
        (st[r].handler = "poppler" /\ Failed(r))
            => /\ Len(st[r].resp) = 1
               /\ st[r].resp[1].status = 500
               /\ \A d \in st[r].dirsMade : d \notin DOMAIN tmp

\* C20: a part_002 request gets no response while it is handled and exactly
\* one when it is done: 200 with success = true, the classifier's decision,
\* the parsed structure and the exact text of the model; or a status that is
\* not 2xx with both an error field and a details field.
C20_OneResponse ==
    \A r \in Reqs :
        st[r].handler = "poppler"
            => /\ st[r].pc # "done" => st[r].resp = <<>>
               /\ st[r].pc = "done" =>
                    /\ Len(st[r].resp) = 1
                    /\ LET resp == st[r].resp[1]
                           text == jsonTextPoppler(st[r].backend)
                       IN  \/ /\ resp.status = 200
                              /\ resp.success
                              /\ resp.source = (IF st[r].isPdf THEN "pdf" ELSE "image")
                              /\ resp.raw = text
                              /\ resp.data = JSONparse(text) /\ resp.data # NoJson
                           \/ /\ resp.status \notin 200..299
                              /\ ~resp.success
                              /\ resp.error # NoField
                              /\ resp.details # NoField

-----------------------------------------------------------------------------

\* The stage a failure came from, told by the message of the thrown error.
FailureKind(details) ==
    CASE details \in {"fetch failed or aborted", "body read failed or aborted",
                      "Failed to download file: HTTP 404"} -> "fetch or timeout"
      [] details \in {"PDF too large (declared).", "PDF too large (read)."} -> "too large"
      [] details \in {"spawn pdftoppm ENOENT", "Command failed: pdftoppm",
                      "Rasterization produced no images."} -> "render"
      [] details \in {"mkdtemp failed", "writeFile failed"} -> "storage"
      [] details = "backend error" -> "upstream"
      [] details = "Model did not return output_text." -> "empty output"
      [] details = "Could not parse JSON output." -> "malformed JSON"
      [] OTHER -> "other"

\* C21: failure responses of different kinds (fetch, too large, render,
\* upstream, empty output, malformed JSON) differ in their error field, the
\* one field of the body besides the human-readable details; so a parse
\* failure is told apart from a transport failure.
C21_ErrorKinds ==
    \A r, o \in Reqs :
        (st[r].handler = "poppler" /\ st[o].handler = "poppler"
            /\ Failed(r) /\ Failed(o)
            /\ FailureKind(st[r].resp[1].details) # FailureKind(st[o].resp[1].details))
            => st[r].resp[1].error # st[o].resp[1].error

\* The same request with no extraContext.docType.
WithoutContext(s) == [s EXCEPT !.req.docType = Undef]

\* C22: a part_002 request is classified and rasterized as the request of
\* the same URL and fileType with no extraContext is: the same kind, the
\* same dpi, maxPages and maxPixels, hence the same image blocks; two
\* requests that differ only in extraContext then differ only in the text.
C22_ContextOnlyInText ==
    \A r \in Reqs :
        (Rasterizes(r) /\ st[r].handler = "poppler")
            => LET ref == StartPoppler(WithoutContext(st[r]))
               IN  /\ st[r].dpi = ref.dpi
                   /\ st[r].maxPages = ref.maxPages
                   /\ st[r].maxPixels = ref.maxPixels
                   /\ \A k \in 1..Len(st[r].images) : st[r].images[k].dpi <= ref.dpi

-----------------------------------------------------------------------------

\* pdfinfo has ended and pdftoppm is called with -r safeDpi.
RendererCalled(r) == st[r].handler = "poppler" /\ st[r].pc = "pdftoppm"

\* safeDpi is the largest DPI at which a page of that size is within the ceiling.
LargestWithin(size, safeDpi, maxPixels) ==
    /\ PixelsAt(size, safeDpi) <= maxPixels
    /\ PixelsAt(size, safeDpi + 1) > maxPixels

\* C23 as stated: whenever the document's first page at the target DPI
\* exceeds the ceiling, the effective DPI is the largest within the ceiling;
\* otherwise it is the target DPI.
C23_LargestDpiOfDocument ==
    \A r \in Reqs :
        (RendererCalled(r) /\ st[r].doc.readable /\ st[r].doc.numPages >= 1)
            => IF PixelsAt(st[r].doc.first, st[r].dpi) > st[r].maxPixels
               THEN LargestWithin(st[r].doc.first, st[r].safeDpi, st[r].maxPixels)
               ELSE st[r].safeDpi = st[r].dpi

\* C23, amended: when pdfinfo reported the first page's size and that size
\* at the target DPI exceeds the ceiling, the effective DPI is the largest
\* within the ceiling; when it does not exceed it, or pdfinfo failed or
\* printed no page size, the effective DPI is the target DPI.
C23_LargestDpi ==
    \A r \in Reqs :
        RendererCalled(r)
            => IF st[r].pageSize # NoSize
                    /\ PixelsAt(st[r].pageSize, st[r].dpi) > st[r].maxPixels
               THEN LargestWithin(st[r].pageSize, st[r].safeDpi, st[r].maxPixels)
               ELSE st[r].safeDpi = st[r].dpi

\* A 24 x 36 in first page was reported and the DPI lowered.
C23_Witness ==
    \E r \in Reqs :
        /\ RendererCalled(r)
        /\ st[r].pageSize = ArchD
        /\ 1 <= st[r].safeDpi /\ st[r].safeDpi < st[r].dpi

\* C30: the DPI passed to pdftoppm is at least 1 and at most the requested
\* dpi, whatever first-page size pdfinfo reported.
C30_DpiInRange ==
    \A r \in Reqs :
        RendererCalled(r) => (1 <= st[r].safeDpi /\ st[r].safeDpi <= st[r].dpi)

\* C24: an authorized part_002 request with a non-empty URL is classified,
\* whatever its fileType is (absent, a string, a value that is no string):
\* no error is raised and no failure response produced by classification,
\* and nothing is fetched and no backend called before it is classified.
C24_ClassificationTotal ==
    \A r \in Reqs :
        (st[r].handler = "poppler" /\ st[r].pc # "idle"
            /\ ~BadKey(r) /\ ~NoUrl(r))
            => /\ Classified(r)
               /\ st[r].pc = "done" => st[r].resp[1].status = 200

\* pdftoppm succeeded and the loop that reads its files has ended.
ReadLoopEnded(r) ==
    /\ st[r].handler = "poppler" /\ st[r].isPdf
    /\ \/ st[r].pc = "rm" /\ st[r].thrown # "Command failed: pdftoppm"
       \/ Len(st[r].calls) >= 1
       \/ /\ st[r].pc = "done"
          /\ st[r].resp[1].details = "Rasterization produced no images."

\* C25: for a readable document of P >= 1 pages the poppler rasterizer
\* returns min(P, maxPages) images, the content has one block more, and a
\* backend text {"quick_summary":"ok"} gives a success of source 'pdf' with
\* that object.
C25_MinPagesImages ==
    \A r \in Reqs :
        (ReadLoopEnded(r) /\ st[r].doc.readable /\ st[r].doc.numPages >= 1)
            => /\ Len(st[r].images) = Min(st[r].doc.numPages, st[r].maxPages)
               /\ Len(st[r].calls) >= 1 =>
                    Len(st[r].calls[1]) = Min(st[r].doc.numPages, st[r].maxPages) + 1
               /\ (AnsweredByBackend(r) /\ st[r].backend.output_text = JsonObjectText)
                    => st[r].resp[1] =
                        Success(TRUE, "object{quick_summary:ok}", JsonObjectText)

\* The positions of the download and the rendering of rasterizePdfToImagesPoppler.
RasterStages == {"probe", "fetch", "body", "mkdtemp", "write", "pdfinfo",
                 "pdftoppm", "read", "rm"}

\* C26: in a part_002 request the stages follow one another: while the
\* document is downloaded and rendered nothing is assembled, sent or
\* answered; the one extraction call is made with the assembled content once
\* rendering and cleanup are over and gave images; the answer is parsed only
\* after the call; and no call is made when rasterization failed.
C26_StagesInOrder ==
    \A r \in Reqs :
        st[r].handler = "poppler"
            => /\ Len(st[r].calls) <= 1
               /\ st[r].pc \in RasterStages =>
                    /\ st[r].isPdf /\ Len(st[r].content) = 1
                    /\ st[r].calls = <<>> /\ st[r].resp = <<>>
                    /\ st[r].backend = Idle.backend
               /\ Len(st[r].calls) = 1 =>
                    /\ st[r].pc \in {"extract", "done"}
                    /\ st[r].calls[1] = st[r].content
                    /\ st[r].isPdf =>
                        /\ st[r].thrown = NoField
                        /\ Len(st[r].images) >= 1
                        /\ Len(st[r].content) = Len(st[r].images) + 1
                        /\ st[r].tmpDir \notin DOMAIN tmp
                        /\ ~st[r].timer
               /\ st[r].pc = "extract" =>
                    /\ Len(st[r].calls) = 1 /\ st[r].resp = <<>>
                    /\ st[r].backend = Idle.backend
               /\ (st[r].isPdf /\ (st[r].thrown # NoField \/ Len(st[r].images) = 0))
                    => st[r].calls = <<>>

\* A PDF request went through every stage and was answered 200.
C26_Witness ==
    \E r \in Reqs :
        /\ Answered(r) /\ st[r].handler = "poppler" /\ st[r].isPdf
        /\ st[r].resp[1].status = 200
        /\ Len(st[r].images) >= 1

\* C27: when a part_002 rasterization has failed after it made a temp
\* directory, the directory is removed by the time the failure is answered.
C27_RemovedBeforeAnswer ==
    \A r \in Reqs :
        (st[r].handler = "poppler" /\ st[r].pc = "done"
            /\ st[r].dirsMade # {} /\ st[r].calls = <<>>)
            => /\ st[r].resp[1].status = 500
               /\ st[r].dirsMade \cap DOMAIN tmp = {}

\* C28: the body the download holds in memory is never longer than
\* MAX_PDF_BYTES, whatever content-length the server declared.
C28_BufferBounded ==
    \A r \in Reqs :
        st[r].handler = "poppler" => st[r].buf <= MAX_PDF_BYTES

\* C29: when INTERNAL_API_KEY is not configured every request, to
\* /analyze-plan and to /analyze-bid-docs, is answered 401 and causes no
\* work, whether it carries an x-internal-key header or none.
C29_NoKeyNoAccess ==
    \A r \in Reqs :
        (~Truthy(INTERNAL_API_KEY) /\ st[r].pc # "idle")
            => /\ st[r].pc = "done"
               /\ st[r].resp = <<Unauthorized>>
               /\ NoWork(r)

\* With no key configured, a /analyze-bid-docs request with no header and
\* a non-empty planUrls was answered.
C29_Witness ==
    \E r \in Reqs :
        /\ ~Truthy(INTERNAL_API_KEY)
        /\ st[r].handler = "biddocs" /\ st[r].pc = "done"
        /\ st[r].req.key = Undef
        /\ st[r].req.planUrls = "[url]"
        /\ st[r].resp = <<Unauthorized>>

====
